---------------------------- MODULE Spec2Model ----------------------------
(***************************************************************************)
(* Model of the two batch pipelines of the stock-price reporting scripts:  *)
(*   generate_diff.py   (the diff pipeline, artifacts/changes.diff)        *)
(*   generate_report.py (the report pipeline, artifacts/report.html)       *)
(*                                                                         *)
(* Text is modelled at token level: a line is a sequence of tokens (the    *)
(* literal prefixes "Price:" and "Updated:", a whitespace token " ", digit *)
(* tokens and other words), a file content is a sequence of lines.  An     *)
(* optional value (Python None or a value) is <<>> or <<v>>.  Prices are   *)
(* integer-valued; a percentage is the exact rational <<num, den>>.        *)
(***************************************************************************)
EXTENDS Integers, Sequences, FiniteSets, TLC

VARIABLES
    \* the parser on its own
    pc,              \* position of the parser exercise
    content,         \* the content handed to parse_price_file
    parsed,          \* Some(result) of the first call
    edited,          \* the content after an unrecognized line was added/removed
    reparsed,        \* Some(result) of parsing the edited content
    \* the revision store (git)
    accessible,      \* the working directory is inside a git work tree
    commits,         \* number of revisions in the history, 1 is the newest
    tracked,         \* `git ls-files "*.txt"`: the sequence of tracked paths
    blobs,           \* path -> the file's text at each revision (None: no file)
    \* generate_diff.py
    pc_diff,         \* "main", "generate_diff_report", "exited", or "off"
    diff_exit,       \* Some(exit status) once the script has ended
    changes,         \* generate_diff_report: the list `changes`
    diff_artifact,   \* Some(content of artifacts/changes.diff) once written
    diff_first_run,  \* Some(diff_artifact after the first run) once run again
    \* generate_report.py
    pc_report,       \* "main", "exited", or "off"
    report_exit,     \* Some(exit status) once the script has ended
    all_stocks_data, \* generate_html_report: the list `all_stocks_data`
    chart_data,      \* generate_html_report: the dict `chart_data`
    total_stats,     \* generate_html_report: the dict `total_stats`
    report_artifact, \* Some(content of artifacts/report.html) once written
    report_first_run \* Some(report_artifact after the first run) once run again

parse_vars == <<pc, content, parsed, edited, reparsed>>
store_vars == <<accessible, commits, tracked, blobs>>
diff_vars == <<pc_diff, diff_exit, changes, diff_artifact, diff_first_run>>
report_vars ==
    <<pc_report, report_exit, all_stocks_data, chart_data, total_stats, report_artifact,
      report_first_run>>
vars == <<parse_vars, store_vars, diff_vars, report_vars>>

(***************************************************************************)
(* Optional values.                                                        *)
(***************************************************************************)
None == <<>>
Some(v) == <<v>>
Get(o) == o[1]

(***************************************************************************)
(* Strings as token sequences.                                             *)
(***************************************************************************)
DigitToks == {"0", "1", "2", "3", "4", "5", "6", "7", "8", "9"}

DigitVal(t) ==
    CASE t = "0" -> 0 [] t = "1" -> 1 [] t = "2" -> 2 [] t = "3" -> 3
      [] t = "4" -> 4 [] t = "5" -> 5 [] t = "6" -> 6 [] t = "7" -> 7
      [] t = "8" -> 8 [] t = "9" -> 9

\* str.startswith(prefix) for one of the two literal prefixes
startswith(line, prefix) == Len(line) > 0 /\ line[1] = prefix

\* str.replace(old, ''): every occurrence of old is removed
replace(line, old) == SelectSeq(line, LAMBDA t : t # old)

RECURSIVE lstrip(_)
lstrip(s) == IF Len(s) > 0 /\ s[1] = " " THEN lstrip(Tail(s)) ELSE s

RECURSIVE rstrip(_)
rstrip(s) ==
    IF Len(s) > 0 /\ s[Len(s)] = " " THEN rstrip(SubSeq(s, 1, Len(s) - 1)) ELSE s

\* str.strip()
strip(s) == rstrip(lstrip(s))

RECURSIVE DecVal(_)
DecVal(s) ==
    IF Len(s) = 0 THEN 0
    ELSE 10 * DecVal(SubSeq(s, 1, Len(s) - 1)) + DigitVal(s[Len(s)])

\* float(price_str): Some(value), or None for ValueError
float(s) ==
    IF Len(s) > 0 /\ \A k \in 1..Len(s) : s[k] \in DigitToks
    THEN Some(DecVal(s))
    ELSE None

(***************************************************************************)
(* parse_price_file (identical in both scripts).                           *)
(***************************************************************************)
\* faulty variant: the first well-formed price is kept
ScanLineFirstPriceWins(line, acc) ==
    IF startswith(line, "Price:")
    THEN LET r == float(strip(replace(line, "Price:")))
         IN  IF r = None \/ acc.price # None THEN acc ELSE [acc EXCEPT !.price = r]
    ELSE IF startswith(line, "Updated:")
    THEN [acc EXCEPT !.timestamp = Some(strip(replace(line, "Updated:")))]
    ELSE acc

\* faulty variant: the prefix is looked for anywhere in the line
ScanLineContains(line, acc) ==
    IF \E k \in 1..Len(line) : line[k] = "Price:"
    THEN LET r == float(strip(replace(line, "Price:")))
         IN  IF r = None THEN acc ELSE [acc EXCEPT !.price = r]
    ELSE IF \E k \in 1..Len(line) : line[k] = "Updated:"
    THEN [acc EXCEPT !.timestamp = Some(strip(replace(line, "Updated:")))]
    ELSE acc

\* the body of one iteration of `for line in lines`
ScanLine(line, acc) ==
    IF startswith(line, "Price:")
    THEN LET price_str == strip(replace(line, "Price:"))
             r == float(price_str)
         IN  IF r = None THEN acc ELSE [acc EXCEPT !.price = r]
    ELSE IF startswith(line, "Updated:")
    THEN [acc EXCEPT !.timestamp = Some(strip(replace(line, "Updated:")))]
    ELSE acc

RECURSIVE ScanLines(_, _, _)
ScanLines(lines, k, acc) ==
    IF k > Len(lines) THEN acc ELSE ScanLines(lines, k + 1, ScanLine(lines[k], acc))

\* content: None (<<>>) or a sequence of at least one line; "" is <<<<>>>>
parse_price_file(c) ==
    IF c = None \/ c = <<<<>>>>
    THEN [price |-> None, timestamp |-> None]
    ELSE ScanLines(c, 1, [price |-> None, timestamp |-> None])

(***************************************************************************)
(* Numbers.  A percentage is the exact rational <<n, d>> with d > 0.       *)
(***************************************************************************)
Rat(n, d) == IF d < 0 THEN <<-n, -d>> ELSE <<n, d>>
RatAbs(r) == <<IF r[1] < 0 THEN -r[1] ELSE r[1], r[2]>>
RatEq(a, b) == a[1] * b[2] = b[1] * a[2]
RatLess(a, b) == a[1] * b[2] < b[1] * a[2]
RatLeq(a, b) == a[1] * b[2] <= b[1] * a[2]
RatZero == <<0, 1>>

Take(s, n) == SubSeq(s, 1, IF Len(s) < n THEN Len(s) ELSE n)

RECURSIVE Reverse(_)
Reverse(s) == IF s = <<>> THEN <<>> ELSE Reverse(Tail(s)) \o <<Head(s)>>

(***************************************************************************)
(* list.sort(key=..., reverse=True): the order of the indices of `keys`    *)
(* after a descending sort that keeps equal keys in their original order.  *)
(***************************************************************************)
InsertAtPos(perm, k, p) == SubSeq(perm, 1, p) \o <<k>> \o SubSeq(perm, p + 1, Len(perm))

\* faulty variant: an element goes before the elements whose key equals its own
InsertBeforeTies(perm, keys, k) ==
    InsertAtPos(perm, k,
        Cardinality({i \in 1..Len(perm) : RatLess(keys[k], keys[perm[i]])}))

\* index k goes behind every index whose key is at least its own
InsertStable(perm, keys, k) ==
    InsertAtPos(perm, k,
        Cardinality({i \in 1..Len(perm) : RatLeq(keys[k], keys[perm[i]])}))

RECURSIVE SortedOrder(_, _)
SortedOrder(keys, k) ==
    IF k = 0 THEN <<>> ELSE InsertStable(SortedOrder(keys, k - 1), keys, k)

Permute(list, perm) == [i \in 1..Len(list) |-> list[perm[i]]]

sort_reverse(list, keys) == Permute(list, SortedOrder(keys, Len(list)))

(***************************************************************************)
(* The revision store as the scripts see it through git.                   *)
(***************************************************************************)
RootDir == ""
MainName == 0            \* the file name `main`; every other name is a ticker
Path(dir, name) == [dir |-> dir, name |-> name]

\* os.path.basename(filepath).replace('.txt', '')
basename_ticker(filepath) == filepath.name

IsBlank(line) == \A k \in 1..Len(line) : line[k] = " "

RECURSIVE DropLeadingBlank(_)
DropLeadingBlank(lines) ==
    IF Len(lines) > 0 /\ IsBlank(lines[1]) THEN DropLeadingBlank(Tail(lines)) ELSE lines

RECURSIVE DropTrailingBlank(_)
DropTrailingBlank(lines) ==
    IF Len(lines) > 0 /\ IsBlank(lines[Len(lines)])
    THEN DropTrailingBlank(SubSeq(lines, 1, Len(lines) - 1))
    ELSE lines

\* result.stdout.strip() on a text of several lines
StripText(text) ==
    LET b == DropTrailingBlank(DropLeadingBlank(text))
    IN  IF b = <<>> THEN <<<<>>>>
        ELSE IF Len(b) = 1 THEN <<strip(b[1])>>
        ELSE <<lstrip(b[1])>> \o SubSeq(b, 2, Len(b) - 1) \o <<rstrip(b[Len(b)])>>

\* the text of filepath at a revision: None when `git show` fails
Blob(commit_hash, filepath) ==
    IF filepath \notin DOMAIN blobs \/ commit_hash \notin 1..commits
    THEN None
    ELSE blobs[filepath][commit_hash]

\* what get_file_content returns for a blob: None when `git show` fails,
\* else result.stdout.strip()
ReadBlob(blob) == IF blob = None THEN None ELSE StripText(blob)

get_file_content(commit_hash, filepath) == ReadBlob(Blob(commit_hash, filepath))

\* git ls-files "*.txt" without main.txt; nothing when git fails
get_all_stock_files ==
    IF ~accessible THEN <<>>
    ELSE SelectSeq(tracked, LAMBDA f : f # Path(RootDir, MainName))

(***************************************************************************)
(* The file texts of the stores, and what the scripts read from them.      *)
(***************************************************************************)
DigitTok(d) == CHOOSE t \in DigitToks : DigitVal(t) = d

\* a natural number written in decimal
RECURSIVE Digits(_)
Digits(n) == IF n < 10 THEN <<DigitTok(n)>> ELSE Digits(n \div 10) \o <<DigitTok(n % 10)>>

\* file texts as committed (the final <<>> is the newline that ends the file)
TextOf(p) ==
    << <<"Price:", " ">> \o Digits(p), <<"Updated:", " ", "at">> \o Digits(p), <<>> >>
NoStampText(p) == << <<"Price:", " ">> \o Digits(p), <<>> >>
IndentedText(p) ==
    << <<>>, <<" ", "Price:", " ">> \o Digits(p) \o <<" ">>, <<"Updated:">>, <<>> >>
JunkText == << <<"Price:", " ", "n/a">>, <<"Updated:", " ", "mon">>, <<>> >>

FileTexts ==
    {None, JunkText, TextOf(0), NoStampText(5), IndentedText(80),
     TextOf(90), TextOf(100), TextOf(110)}

\* parse_price_file(get_file_content(...)) of each file text, tabulated
Observed == [blob \in FileTexts |-> parse_price_file(ReadBlob(blob))]

\* price, timestamp = parse_price_file(get_file_content(commit_hash, filepath))
ParsedAt(commit_hash, filepath) == Observed[Blob(commit_hash, filepath)]

(***************************************************************************)
(* generate_diff.py                                                        *)
(***************************************************************************)
TopListed == 10

\* faulty variant: one revision is taken to be enough
get_last_two_commits_off_by_one ==
    IF ~accessible \/ commits < 1 THEN None ELSE Some(<<1, 2>>)

\* git log -2: the two newest revisions, or None
get_last_two_commits ==
    IF ~accessible \/ commits < 2 THEN None ELSE Some(<<1, 2>>)

\* faulty variant: the two prices are taken in the wrong order
calculate_percentage_change_swapped(old_price, new_price) ==
    IF new_price = None \/ Get(new_price) = 0
    THEN RatZero
    ELSE Rat((Get(old_price) - Get(new_price)) * 100, Get(new_price))

\* old_price, new_price: optional prices
calculate_percentage_change(old_price, new_price) ==
    IF old_price = None \/ Get(old_price) = 0
    THEN RatZero
    ELSE Rat((Get(new_price) - Get(old_price)) * 100, Get(old_price))

\* faulty variant: a record is appended as soon as the current price is there
ChangeOfFileCurrentOnly(filepath, current_commit, previous_commit) ==
    LET current == ParsedAt(current_commit, filepath)
        previous == ParsedAt(previous_commit, filepath)
        prev_price == IF previous.price = None THEN Some(0) ELSE previous.price
    IN  IF current.price # None
        THEN << [ticker |-> basename_ticker(filepath),
                 previous_price |-> Get(prev_price),
                 current_price |-> Get(current.price),
                 price_change |-> Get(current.price) - Get(prev_price),
                 percent_change |->
                     calculate_percentage_change(prev_price, current.price),
                 previous_time |-> previous.timestamp,
                 current_time |-> current.timestamp] >>
        ELSE <<>>

\* one iteration of `for filepath in stock_files`: the records it appends
ChangeOfFile(filepath, current_commit, previous_commit) ==
    LET current == ParsedAt(current_commit, filepath)
        previous == ParsedAt(previous_commit, filepath)
    IN  IF current.price # None /\ previous.price # None
        THEN << [ticker |-> basename_ticker(filepath),
                 previous_price |-> Get(previous.price),
                 current_price |-> Get(current.price),
                 price_change |-> Get(current.price) - Get(previous.price),
                 percent_change |->
                     calculate_percentage_change(previous.price, current.price),
                 previous_time |-> previous.timestamp,
                 current_time |-> current.timestamp] >>
        ELSE <<>>

RECURSIVE CollectChanges(_, _, _)
CollectChanges(stock_files, current_commit, previous_commit) ==
    IF stock_files = <<>> THEN <<>>
    ELSE ChangeOfFile(Head(stock_files), current_commit, previous_commit)
         \o CollectChanges(Tail(stock_files), current_commit, previous_commit)

\* changes.sort(key=lambda x: abs(x['percent_change']), reverse=True)
SortChanges(list) ==
    sort_reverse(list, [i \in 1..Len(list) |-> RatAbs(list[i].percent_change)])

Gainers(list) == SelectSeq(list, LAMBDA c : c.percent_change[1] > 0)
Losers(list) == SelectSeq(list, LAMBDA c : c.percent_change[1] < 0)
Unchanged(list) == SelectSeq(list, LAMBDA c : c.percent_change[1] = 0)

\* faulty variant: the listing is not cut
TopOfAll(list) == list

\* gainers[:10], losers[:10]
TopOf(list) == Take(list, TopListed)

\* what generate_diff_report writes to artifacts/changes.diff
DiffText(sorted) ==
    [previous_update |-> IF sorted # <<>> THEN sorted[1].previous_time ELSE Some(<<"N/A">>),
     current_update |-> IF sorted # <<>> THEN sorted[1].current_time ELSE Some(<<"N/A">>),
     total |-> Len(sorted),
     gainers |-> Len(Gainers(sorted)),
     losers |-> Len(Losers(sorted)),
     unchanged |-> Len(Unchanged(sorted)),
     top_gainers |-> TopOf(Gainers(sorted)),
     top_losers |-> TopOf(Losers(sorted)),
     detailed |-> sorted]

\* __main__: the git rev-parse check, sys.exit(1) outside a work tree
DiffMain ==
    /\ pc_diff = "main"
    /\ IF accessible
       THEN /\ pc_diff' = "generate_diff_report"
            /\ diff_exit' = diff_exit
       ELSE /\ pc_diff' = "exited"
            /\ diff_exit' = Some(1)
    /\ UNCHANGED <<changes, diff_artifact, diff_first_run>>
    /\ UNCHANGED <<parse_vars, store_vars, report_vars>>

\* faulty variant: the file is opened for appending, the detailed listing
\* of an earlier run stays ahead of the new one
WriteDiffAppending(sorted) ==
    /\ changes' = sorted
    /\ diff_artifact' =
          IF diff_artifact = None THEN Some(DiffText(sorted))
          ELSE Some([DiffText(sorted) EXCEPT !.detailed = Get(diff_artifact).detailed \o @])

\* the body of generate_diff_report() after the two early returns
WriteDiff(sorted) ==
    /\ changes' = sorted
    /\ diff_artifact' = Some(DiffText(sorted))

DiffOutcome(last_two, stock_files) ==
    IF last_two = None \/ stock_files = <<>>
    THEN UNCHANGED <<changes, diff_artifact>>
    ELSE WriteDiff(SortChanges(
             CollectChanges(stock_files, Get(last_two)[1], Get(last_two)[2])))

\* generate_diff_report(), then the script ends with status 0
GenerateDiffReport ==
    /\ pc_diff = "generate_diff_report"
    /\ DiffOutcome(get_last_two_commits, get_all_stock_files)
    /\ pc_diff' = "exited"
    /\ diff_exit' = Some(0)
    /\ UNCHANGED <<diff_first_run, parse_vars, store_vars, report_vars>>

(***************************************************************************)
(* generate_report.py                                                      *)
(***************************************************************************)
MaxCommitsSampled == 10
SampledFiles == 20
ChartsShown == 12
TableRows == 20
LabelLength == 16

\* datetime.now() returns one of the times 1..MaxClock
MaxClock == 2

\* git log -N --pretty=format:%H|%ai: the newest revisions first
get_commit_history(max_commits) ==
    IF ~accessible THEN <<>>
    ELSE [k \in 1..(IF commits < max_commits THEN commits ELSE max_commits) |->
             [hash |-> k, timestamp |-> <<"committed">> \o Digits(k)]]

\* one iteration of `for commit in commits`: the entries it appends
ObservationOf(filepath, commit) ==
    LET obs == ParsedAt(commit.hash, filepath)
    IN  IF obs.price # None
        THEN << [timestamp |-> IF obs.timestamp # None /\ Get(obs.timestamp) # <<>>
                               THEN Get(obs.timestamp)
                               ELSE commit.timestamp,
                 price |-> Get(obs.price)] >>
        ELSE <<>>

RECURSIVE HistoryAt(_, _)
HistoryAt(filepath, commit_list) ==
    IF commit_list = <<>> THEN <<>>
    ELSE ObservationOf(filepath, Head(commit_list))
         \o HistoryAt(filepath, Tail(commit_list))

\* filepath = f"{ticker}.txt"
get_price_history(ticker, commit_list) ==
    HistoryAt(Path(RootDir, ticker), commit_list)

RECURSIVE SumSeq(_)
SumSeq(s) == IF s = <<>> THEN 0 ELSE Head(s) + SumSeq(Tail(s))

SeqMin(s) == CHOOSE x \in {s[i] : i \in 1..Len(s)} : \A i \in 1..Len(s) : x <= s[i]
SeqMax(s) == CHOOSE x \in {s[i] : i \in 1..Len(s)} : \A i \in 1..Len(s) : x >= s[i]

\* faulty variant: the previous price is taken from the oldest observation
calculate_statistics_oldest(history) ==
    IF history = <<>> THEN None
    ELSE LET prices == [i \in 1..Len(history) |-> history[i].price]
             current_price == prices[1]
             previous_price == prices[Len(prices)]
         IN  Some([current |-> current_price,
                   previous |-> previous_price,
                   min |-> SeqMin(prices),
                   max |-> SeqMax(prices),
                   avg |-> <<SumSeq(prices), Len(prices)>>,
                   change |-> current_price - previous_price,
                   percent_change |->
                       IF previous_price # 0
                       THEN Rat((current_price - previous_price) * 100, previous_price)
                       ELSE RatZero])

\* None, or Some(statistics) of a history that is not empty
calculate_statistics(history) ==
    IF history = <<>> THEN None
    ELSE LET prices == [i \in 1..Len(history) |-> history[i].price]
             current_price == prices[1]
             previous_price == IF Len(prices) > 1 THEN prices[2] ELSE current_price
         IN  Some([current |-> current_price,
                   previous |-> previous_price,
                   min |-> SeqMin(prices),
                   max |-> SeqMax(prices),
                   avg |-> <<SumSeq(prices), Len(prices)>>,
                   change |-> current_price - previous_price,
                   percent_change |->
                       IF previous_price # 0
                       THEN Rat((current_price - previous_price) * 100, previous_price)
                       ELSE RatZero])

\* tickers = [basename(f) for f in stock_files[:20]]
SampleTickers(stock_files) ==
    LET sample == Take(stock_files, SampledFiles)
    IN  [j \in 1..Len(sample) |-> basename_ticker(sample[j])]

\* one iteration of the first loop: the entries appended to all_stocks_data
StockEntry(ticker, history, stats) ==
    IF stats # None
    THEN << [ticker |-> ticker, stats |-> Get(stats), history |-> history] >>
    ELSE <<>>

StockOf(ticker, history) == StockEntry(ticker, history, calculate_statistics(history))

RECURSIVE CollectStocks(_, _)
CollectStocks(tickers, commit_list) ==
    IF tickers = <<>> THEN <<>>
    ELSE StockOf(Head(tickers), get_price_history(Head(tickers), commit_list))
         \o CollectStocks(Tail(tickers), commit_list)

\* labels and prices, oldest first
ChartOf(reversed) ==
    [labels |-> [i \in 1..Len(reversed) |-> Take(reversed[i].timestamp, LabelLength)],
     prices |-> [i \in 1..Len(reversed) |-> reversed[i].price]]

\* chart_data[ticker] = {...}
SetChart(charts, ticker, entry) ==
    [t \in DOMAIN charts \cup {ticker} |-> IF t = ticker THEN entry ELSE charts[t]]

\* chart_data after the first loop: an entry for every entry of all_stocks_data
RECURSIVE CollectCharts(_, _)
CollectCharts(stocks, k) ==
    IF k = 0 THEN <<>>
    ELSE SetChart(CollectCharts(stocks, k - 1), stocks[k].ticker,
                  ChartOf(Reverse(stocks[k].history)))

\* all_stocks_data.sort(key=lambda x: abs(x['stats']['percent_change']), reverse=True)
SortStocks(list) ==
    sort_reverse(list, [i \in 1..Len(list) |-> RatAbs(list[i].stats.percent_change)])

\* one iteration of the second loop
Tally(totals, stats) ==
    IF stats = None THEN totals
    ELSE IF Get(stats).percent_change[1] > 0
    THEN [totals EXCEPT !.gainers = @ + 1]
    ELSE IF Get(stats).percent_change[1] < 0
    THEN [totals EXCEPT !.losers = @ + 1]
    ELSE [totals EXCEPT !.unchanged = @ + 1]

\* the second loop: gainers, losers and unchanged over all tickers, commits[:2]
RECURSIVE CountTotals(_, _, _)
CountTotals(tickers, k, commit_list) ==
    IF k = 0 THEN [gainers |-> 0, losers |-> 0, unchanged |-> 0]
    ELSE Tally(CountTotals(tickers, k - 1, commit_list),
               calculate_statistics(get_price_history(tickers[k], Take(commit_list, 2))))

\* faulty variant: the gallery shows every entry
ChartedAll(sorted) == sorted

\* all_stocks_data[:12]
Charted(sorted) == Take(sorted, ChartsShown)

\* all_stocks_data[:20]
Tabled(sorted) == Take(sorted, TableRows)

\* the chart containers of the gallery
GalleryOf(list) ==
    [i \in 1..Len(list) |->
        [ticker |-> list[i].ticker,
         current |-> list[i].stats.current,
         percent_change |-> list[i].stats.percent_change]]

\* the rows of the table
TableOf(list) ==
    [i \in 1..Len(list) |-> [ticker |-> list[i].ticker, stats |-> list[i].stats]]

\* what generate_html_report writes to artifacts/report.html
HtmlText(now, n_tickers, totals, sorted, charts) ==
    [generated |-> now,
     total_stocks |-> n_tickers,
     gainers |-> totals.gainers,
     losers |-> totals.losers,
     unchanged |-> totals.unchanged,
     gallery |-> GalleryOf(Charted(sorted)),
     table |-> TableOf(Tabled(sorted)),
     chartData |-> charts]

\* all_tickers = [basename(f) for f in stock_files]
AllTickers(stock_files) ==
    [j \in 1..Len(stock_files) |-> basename_ticker(stock_files[j])]

\* the body of generate_html_report() after the two early returns
WriteReport(n_tickers, totals, sorted, charts) ==
    /\ all_stocks_data' = sorted
    /\ chart_data' = charts
    /\ total_stats' = Some(totals)
    /\ \E now \in 1..MaxClock :
          report_artifact' = Some(HtmlText(now, n_tickers, totals, sorted, charts))

ReportOf(collected, all_tickers, commit_list) ==
    WriteReport(Len(all_tickers),
                CountTotals(all_tickers, Len(all_tickers), commit_list),
                SortStocks(collected),
                CollectCharts(collected, Len(collected)))

ReportOutcome(commit_list, stock_files) ==
    IF commit_list = <<>> \/ stock_files = <<>>
    THEN UNCHANGED <<all_stocks_data, chart_data, total_stats, report_artifact>>
    ELSE ReportOf(CollectStocks(SampleTickers(stock_files), commit_list),
                  AllTickers(stock_files), commit_list)

\* __main__ calls generate_html_report(); the script ends with status 0
GenerateHtmlReport ==
    /\ pc_report = "main"
    /\ ReportOutcome(get_commit_history(MaxCommitsSampled), get_all_stock_files)
    /\ pc_report' = "exited"
    /\ report_exit' = Some(0)
    /\ UNCHANGED <<report_first_run, parse_vars, store_vars, diff_vars>>

(***************************************************************************)
(* The revision stores the pipelines are run on.                           *)
(***************************************************************************)
MaxCommits == 3
MaxFiles == 2
MaxPad == 20
SubDir == "data/"

\* histories of one file, newest first
Up10 == <<TextOf(110), TextOf(100), TextOf(100)>>
Down10 == <<TextOf(90), TextOf(100), TextOf(110)>>
Up25 == <<TextOf(100), IndentedText(80), TextOf(100)>>
Flat == <<TextOf(100), TextOf(100), TextOf(90)>>
ZeroBase == <<NoStampText(5), TextOf(0), TextOf(0)>>
NewFile == <<TextOf(100), None, None>>
Deleted == <<None, TextOf(100), TextOf(100)>>
Malformed == <<JunkText, TextOf(100), TextOf(90)>>

Patterns == {Up10, Down10, Up25, Flat, ZeroBase, NewFile, Deleted, Malformed}
PadPatterns == {Up10, Down10, NewFile}

HistoryOf(pat, n) == [k \in 1..n |-> IF k <= Len(pat) THEN pat[k] ELSE pat[Len(pat)]]

\* one tracked file: any path, any history
SingleFileStores(n) ==
    { << [path |-> Path(d, name), hist |-> h] >> :
        d \in {RootDir, SubDir}, name \in {MainName, 1}, h \in [1..n -> FileTexts] }

\* a few files at the root, each with one of the histories above
FewFileStores(n) ==
    UNION { { [j \in 1..m |-> [path |-> Path(RootDir, j), hist |-> HistoryOf(f[j], n)]] :
                f \in [1..m -> Patterns] } : m \in 0..MaxFiles }

\* many files with the same history, then possibly one with another
ManyFileStores(n) ==
    UNION { { [j \in 1..k |-> [path |-> Path(RootDir, j), hist |-> HistoryOf(pad, n)]]
              \o last :
                pad \in PadPatterns,
                last \in {<<>>} \cup
                    { << [path |-> Path(RootDir, k + 1), hist |-> HistoryOf(p, n)] >> :
                        p \in Patterns } } : k \in 1..MaxPad }

Stores(n) == SingleFileStores(n) \cup FewFileStores(n) \cup ManyFileStores(n)

Init ==
    /\ pc = "off"
    /\ content = None
    /\ parsed = None
    /\ edited = None
    /\ reparsed = None
    /\ accessible \in BOOLEAN
    /\ commits \in 0..MaxCommits
    /\ \E files \in Stores(commits) :
          /\ tracked = [j \in 1..Len(files) |-> files[j].path]
          /\ blobs = [p \in {files[j].path : j \in 1..Len(files)} |->
                         (CHOOSE f \in {files[j] : j \in 1..Len(files)} : f.path = p).hist]
    /\ ~accessible => commits = 0 /\ tracked = <<>>
    /\ pc_diff = "main"
    /\ diff_exit = None
    /\ changes = <<>>
    /\ diff_artifact = None
    /\ diff_first_run = None
    /\ pc_report = "main"
    /\ report_exit = None
    /\ all_stocks_data = <<>>
    /\ chart_data = <<>>
    /\ total_stats = None
    /\ report_artifact = None
    /\ report_first_run = None

Next == DiffMain \/ GenerateDiffReport \/ GenerateHtmlReport

Spec == Init /\ [][Next]_vars

(***************************************************************************)
(* Each script run a second time on the same store.                        *)
(***************************************************************************)
\* generate_diff.py is started again: a new process, artifacts/ as it was left
RunDiffAgain ==
    /\ pc_diff = "exited"
    /\ diff_first_run = None
    /\ diff_first_run' = Some(diff_artifact)
    /\ pc_diff' = "main"
    /\ diff_exit' = None
    /\ changes' = <<>>
    /\ UNCHANGED <<diff_artifact, parse_vars, store_vars, report_vars>>

\* generate_report.py is started again
RunReportAgain ==
    /\ pc_report = "exited"
    /\ report_first_run = None
    /\ report_first_run' = Some(report_artifact)
    /\ pc_report' = "main"
    /\ report_exit' = None
    /\ all_stocks_data' = <<>>
    /\ chart_data' = <<>>
    /\ total_stats' = None
    /\ UNCHANGED <<report_artifact, parse_vars, store_vars, diff_vars>>

NextTwice == Next \/ RunDiffAgain \/ RunReportAgain

\* the stores of a few ticker files at the top of the work tree
TopLevelStore ==
    /\ Len(tracked) <= MaxFiles
    /\ \A j \in 1..Len(tracked) : tracked[j] = Path(RootDir, j)

InitTwice == Init /\ TopLevelStore

SpecTwice == InitTwice /\ [][NextTwice]_vars

(***************************************************************************)
(* The parser on its own: contents over a pool of lines.                   *)
(***************************************************************************)
MaxLines == 3

LinePool ==
    { <<"Price:", " ", "7">>,
      <<"Price:", "1", "0", " ">>,
      <<"Price:", " ", "x">>,
      <<"Price:", "Price:", "5">>,
      <<"Updated:", " ", "t1">>,
      <<"Updated:", "t2", "Updated:">>,
      <<" ", "Price:", "7">>,
      <<"x", "Updated:", "t1">>,
      <<>> }

Unrecognized(line) == ~startswith(line, "Price:") /\ ~startswith(line, "Updated:")

ParseContents ==
    {None} \cup UNION {[1..n -> LinePool] : n \in 1..MaxLines}

InsertAt(s, p, x) == SubSeq(s, 1, p - 1) \o <<x>> \o SubSeq(s, p, Len(s))
RemoveAt(s, p) == SubSeq(s, 1, p - 1) \o SubSeq(s, p + 1, Len(s))

PipelinesOff ==
    /\ accessible = FALSE
    /\ commits = 0
    /\ tracked = <<>>
    /\ blobs = <<>>
    /\ pc_diff = "off"
    /\ diff_exit = None
    /\ changes = <<>>
    /\ diff_artifact = None
    /\ diff_first_run = None
    /\ pc_report = "off"
    /\ report_exit = None
    /\ all_stocks_data = <<>>
    /\ chart_data = <<>>
    /\ total_stats = None
    /\ report_artifact = None
    /\ report_first_run = None

InitParse ==
    /\ pc = "parse"
    /\ content \in ParseContents
    /\ parsed = None
    /\ edited = None
    /\ reparsed = None
    /\ PipelinesOff

Parse ==
    /\ pc = "parse"
    /\ parsed' = Some(parse_price_file(content))
    /\ pc' = "edit"
    /\ UNCHANGED <<content, edited, reparsed, store_vars, diff_vars, report_vars>>

InsertLine ==
    /\ pc = "edit"
    /\ content # None
    /\ \E p \in 1..(Len(content) + 1), l \in {x \in LinePool : Unrecognized(x)} :
          edited' = InsertAt(content, p, l)
    /\ pc' = "reparse"
    /\ UNCHANGED <<content, parsed, reparsed, store_vars, diff_vars, report_vars>>

RemoveLine ==
    /\ pc = "edit"
    /\ content # None
    /\ Len(content) > 1
    /\ \E p \in 1..Len(content) :
          /\ Unrecognized(content[p])
          /\ edited' = RemoveAt(content, p)
    /\ pc' = "reparse"
    /\ UNCHANGED <<content, parsed, reparsed, store_vars, diff_vars, report_vars>>

Reparse ==
    /\ pc = "reparse"
    /\ reparsed' = Some(parse_price_file(edited))
    /\ pc' = "parse_done"
    /\ UNCHANGED <<content, parsed, edited, store_vars, diff_vars, report_vars>>

NextParse == Parse \/ InsertLine \/ RemoveLine \/ Reparse

SpecParse == InitParse /\ [][NextParse]_vars

(***************************************************************************)
(* Claims about parse_price_file.                                          *)
(***************************************************************************)
EmptyObservation == [price |-> None, timestamp |-> None]

LinesWithPrefix(c, prefix) == {k \in 1..Len(c) : startswith(c[k], prefix)}

LastOf(S) == CHOOSE k \in S : \A j \in S : j <= k

\* the remainder of a line that begins with prefix, as the scripts take it
\* (the prefix removed wherever it occurs), trimmed
Remainder(line, prefix) == strip(replace(line, prefix))

\* a `Price:` line whose text, every `Price:` removed and trimmed, is a number
WellFormedPriceLines(c) ==
    {k \in LinesWithPrefix(c, "Price:") : float(strip(replace(c[k], "Price:"))) # None}

\* C3 as stated: the price is decided by the last line beginning with
\* `Price:` alone (its remainder parsed as a number, absent when that fails)
\* and the timestamp is the trimmed remainder of the last `Updated:` line.
C3_LastPriceLineDecides ==
    parsed # None =>
        LET r == Get(parsed)
            P == LinesWithPrefix(content, "Price:")
            U == LinesWithPrefix(content, "Updated:")
        IN  /\ r.price = IF P = {} THEN None ELSE float(Remainder(content[LastOf(P)], "Price:"))
            /\ r.timestamp = IF U = {} THEN None
                             ELSE Some(Remainder(content[LastOf(U)], "Updated:"))

\* C3 amended: the price is the value of the last line beginning with
\* `Price:` whose text (every occurrence of `Price:` removed, trimmed) parses
\* as a number, and is absent when there is no such line: a malformed
\* `Price:` line neither stops the scan nor clears an earlier price.  The
\* timestamp is the text of the last line beginning with `Updated:`, every
\* occurrence of `Updated:` removed, trimmed.
C3_LastWellFormedPriceWins ==
    parsed # None =>
        LET r == Get(parsed)
            W == WellFormedPriceLines(content)
            U == LinesWithPrefix(content, "Updated:")
        IN  /\ r.price = IF W = {} THEN None
                         ELSE float(strip(replace(content[LastOf(W)], "Price:")))
            /\ r.timestamp = IF U = {} THEN None
                             ELSE Some(strip(replace(content[LastOf(U)], "Updated:")))

\* two well-formed `Price:` lines with different values followed by a
\* malformed one, and two `Updated:` lines, have been parsed
C3_Witness ==
    /\ parsed # None
    /\ \E i, j, k \in 1..Len(content) :
          /\ i < j /\ j < k
          /\ {i, j} \subseteq WellFormedPriceLines(content)
          /\ float(strip(replace(content[i], "Price:")))
                # float(strip(replace(content[j], "Price:")))
          /\ k \in LinesWithPrefix(content, "Price:") \ WellFormedPriceLines(content)
          /\ Get(parsed).price = float(strip(replace(content[j], "Price:")))
    /\ Get(parsed).price # None

\* C4: the parser returns a (price, timestamp) result for every content,
\* both fields absent for an absent content, and adding or removing a line
\* that begins with neither prefix leaves the result unchanged.
C4_ParseTotalIgnoresUnrecognized ==
    /\ parsed # None =>
          /\ Get(parsed).price \in {None} \cup {Some(n) : n \in 0..999}
          /\ Len(Get(parsed).timestamp) <= 1
          /\ content = None => Get(parsed) = EmptyObservation
    /\ reparsed # None => Get(reparsed) = Get(parsed)

\* an unrecognized line was put between a `Price:` and an `Updated:` line,
\* and both fields are present in the result
C4_Witness ==
    /\ reparsed # None
    /\ Len(edited) = Len(content) + 1
    /\ Get(reparsed).price # None
    /\ Get(reparsed).timestamp # None
    /\ \E p \in 2..Len(content) :
          /\ Unrecognized(edited[p])
          /\ ~Unrecognized(edited[p - 1])
          /\ ~Unrecognized(edited[p + 1])

(***************************************************************************)
(* Claims about the pipelines.  What a file holds is stated here from its  *)
(* text alone, without the scripts' parser.                                *)
(***************************************************************************)
\* the price written in a file text: the number of its last well-formed
\* `Price:` line, None for a missing file or a text without such a line
PriceWritten(blob) ==
    IF blob = None \/ WellFormedPriceLines(StripText(blob)) = {}
    THEN None
    ELSE float(strip(replace(
             StripText(blob)[LastOf(WellFormedPriceLines(StripText(blob)))], "Price:")))

PriceTable == [blob \in FileTexts |-> PriceWritten(blob)]

PriceAt(rev, filepath) == PriceTable[Blob(rev, filepath)]

\* a price is present at the newest and at the second-newest revision
Comparable(filepath) == PriceAt(1, filepath) # None /\ PriceAt(2, filepath) # None

CountIn(list, x) == Cardinality({i \in 1..Len(list) : list[i] = x})

TickersOf(list) == [i \in 1..Len(list) |-> list[i].ticker]

NoTickerFiles == \A j \in 1..Len(tracked) : tracked[j] = Path(RootDir, MainName)

DiffRan == pc_diff = "exited" /\ accessible /\ commits >= 2 /\ ~NoTickerFiles

OneRecordPerComparableFile(files, recs) ==
    /\ TickersOf(recs) \in Seq({basename_ticker(files[j]) : j \in 1..Len(files)})
    /\ \A j \in 1..Len(files) :
          Cardinality({i \in 1..Len(recs) : recs[i].ticker = basename_ticker(files[j])})
            = Cardinality({i \in 1..Len(files) :
                              /\ basename_ticker(files[i]) = basename_ticker(files[j])
                              /\ Comparable(files[i])})

\* C1: in the diff pipeline every tracked ticker file with a price at both
\* the newest and the second-newest revision yields exactly one ChangeRecord,
\* every other file yields none, and the run completes whatever is missing.
C1_OneRecordPerComparableTicker ==
    DiffRan =>
        /\ diff_artifact # None
        /\ Get(diff_artifact).detailed = changes
        /\ OneRecordPerComparableFile(get_all_stock_files, changes)

\* files that are missing at the older revision come first in the listing,
\* a file with two prices follows them, and only this one has a record
C1_Witness ==
    /\ DiffRan
    /\ Len(tracked) >= 3
    /\ PriceAt(1, tracked[1]) # None
    /\ Blob(2, tracked[1]) = None
    /\ Comparable(tracked[Len(tracked)])
    /\ Len(changes) = 1
    /\ changes[1].ticker = basename_ticker(tracked[Len(tracked)])

RecordMatchesFile(r, filepath) ==
    /\ basename_ticker(filepath) = r.ticker
    /\ PriceAt(1, filepath) = Some(r.current_price)
    /\ PriceAt(2, filepath) = Some(r.previous_price)

\* percent is the signed (current - previous) / previous * 100, 0 on a zero baseline
PercentRule(percent, previous, current) ==
    /\ percent[2] > 0
    /\ previous = 0 => percent[1] = 0
    /\ previous # 0 => percent[1] * previous = (current - previous) * 100 * percent[2]

\* C2: every ChangeRecord holds the two prices of its file, their
\* difference, and the signed percentage with the zero-baseline rule.
C2_ChangeRecordArithmetic ==
    diff_artifact # None =>
        \A i \in 1..Len(changes) :
            /\ \E j \in 1..Len(tracked) : RecordMatchesFile(changes[i], tracked[j])
            /\ changes[i].price_change
                 = changes[i].current_price - changes[i].previous_price
            /\ PercentRule(changes[i].percent_change,
                           changes[i].previous_price, changes[i].current_price)

\* the two examples of the claim are records of one report
C2_Witness ==
    /\ diff_artifact # None
    /\ \E i \in 1..Len(changes) :
          /\ changes[i].previous_price = 100
          /\ changes[i].current_price = 110
          /\ changes[i].price_change = 10
          /\ RatEq(changes[i].percent_change, <<10, 1>>)
    /\ \E i \in 1..Len(changes) :
          /\ changes[i].previous_price = 0
          /\ changes[i].current_price = 5
          /\ changes[i].price_change = 5
          /\ RatEq(changes[i].percent_change, RatZero)

(***************************************************************************)
(* Claims about the statistics of a price history (report pipeline).       *)
(***************************************************************************)
\* the revisions the report samples, newest first
SampledRevisions == 1..(IF commits < MaxCommitsSampled THEN commits ELSE MaxCommitsSampled)

\* the prices present in the observations of a path, newest first
PresentPrices(filepath) ==
    LET all == [k \in SampledRevisions |-> PriceAt(k, filepath)]
        present == SelectSeq(all, LAMBDA o : o # None)
    IN  [i \in 1..Len(present) |-> Get(present[i])]

StatisticsRule(st, prices) ==
    /\ st.current = prices[1]
    /\ st.previous = IF Len(prices) >= 2 THEN prices[2] ELSE prices[1]
    /\ \E i \in 1..Len(prices) : st.min = prices[i]
    /\ \E i \in 1..Len(prices) : st.max = prices[i]
    /\ \A i \in 1..Len(prices) : st.min <= prices[i] /\ prices[i] <= st.max
    /\ st.avg[2] > 0
    /\ st.avg[1] * Len(prices) = SumSeq(prices) * st.avg[2]
    /\ st.min <= st.current /\ st.current <= st.max
    /\ st.min * st.avg[2] <= st.avg[1] /\ st.avg[1] <= st.max * st.avg[2]
    /\ st.change = st.current - st.previous
    /\ PercentRule(st.percent_change, st.previous, st.current)
    /\ Len(prices) = 1 => st.previous = st.current /\ st.percent_change[1] = 0

\* the tickers the report collects statistics for: those of stock_files[:20]
SampledTickerSet ==
    {basename_ticker(get_all_stock_files[j]) :
        j \in 1..(IF Len(get_all_stock_files) < SampledFiles
                  THEN Len(get_all_stock_files) ELSE SampledFiles)}

TickerHasPrices(t) == PresentPrices(Path(RootDir, t)) # <<>>

NonIncreasing(mags) == \A i \in 1..(Len(mags) - 1) : RatLeq(mags[i + 1], mags[i])

\* the entries of list whose magnitude is m, in the order of list
WithMagnitude(list, mags, m) ==
    LET idx == SelectSeq([i \in 1..Len(list) |-> i], LAMBDA i : RatEq(mags[i], m))
    IN  [i \in 1..Len(idx) |-> list[idx[i]]]

\* ranked is listed rearranged by non-increasing magnitude, entries of equal
\* magnitude in the order they have in listed
StableRanking(ranked, ranked_mags, listed, listed_mags) ==
    /\ Len(ranked) = Len(listed)
    /\ NonIncreasing(ranked_mags)
    /\ \A i \in 1..Len(listed) :
          WithMagnitude(ranked, ranked_mags, listed_mags[i])
            = WithMagnitude(listed, listed_mags, listed_mags[i])

ChangeMagnitudes(list) == [i \in 1..Len(list) |-> RatAbs(list[i].percent_change)]
StockMagnitudes(list) == [i \in 1..Len(list) |-> RatAbs(list[i].stats.percent_change)]

DiffRanking(ranked, listed, files) ==
    /\ TickersOf(listed)
         = TickersOf(SelectSeq([j \in 1..Len(files) |-> [ticker |-> basename_ticker(files[j]),
                                                           path |-> files[j]]],
                               LAMBDA f : Comparable(f.path)))
    /\ StableRanking(ranked, ChangeMagnitudes(ranked), listed, ChangeMagnitudes(listed))

ReportRanking(ranked, listed, tickers) ==
    /\ TickersOf(listed) = SelectSeq(tickers, TickerHasPrices)
    /\ StableRanking(ranked, StockMagnitudes(ranked), listed, StockMagnitudes(listed))

Aborting == ~accessible \/ commits < 2 \/ NoTickerFiles

AbortsNonZeroElseWrites(exit_status, artifact) ==
    IF Aborting
    THEN exit_status # Some(0) /\ artifact = None
    ELSE artifact # None

\* C7 as stated: with fewer than two revisions, an inaccessible history or
\* no ticker files a run ends with a non-zero status and writes nothing;
\* in every other case it writes its artifact.
C7_AbortsNonZeroElseWrites ==
    /\ pc_diff = "exited" => AbortsNonZeroElseWrites(diff_exit, diff_artifact)
    /\ pc_report = "exited" => AbortsNonZeroElseWrites(report_exit, report_artifact)

\* C7 as amended: the diff run ends with status 1 only outside a work tree
\* and with status 0 otherwise; it writes its artifact iff there are two
\* revisions and a ticker file.  The report run always ends with status 0;
\* it writes its artifact iff there is a revision and a ticker file.
C7_EarlyReturnsWriteNothing ==
    /\ pc_diff = "exited" =>
          /\ diff_exit = Some(IF accessible THEN 0 ELSE 1)
          /\ diff_artifact # None <=> (accessible /\ commits >= 2 /\ ~NoTickerFiles)
    /\ pc_report = "exited" =>
          /\ report_exit = Some(0)
          /\ report_artifact # None <=> (accessible /\ commits >= 1 /\ ~NoTickerFiles)
    /\ pc_diff # "exited" => diff_exit = None /\ diff_artifact = None
    /\ pc_report # "exited" => report_exit = None /\ report_artifact = None

\* one revision and a ticker file: the diff run returns early with status 0
\* and the report run writes its artifact
C7_Witness ==
    /\ pc_diff = "exited"
    /\ pc_report = "exited"
    /\ commits = 1
    /\ ~NoTickerFiles
    /\ diff_exit = Some(0)
    /\ diff_artifact = None
    /\ report_artifact # None

(***************************************************************************)
(* Claims about the text report.                                           *)
(***************************************************************************)
IndicesWhere(list, Test(_)) == {i \in 1..Len(list) : Test(list[i])}

IsGainer(c) == c.percent_change[1] > 0
IsLoser(c) == c.percent_change[1] < 0
IsUnchanged(c) == c.percent_change[1] = 0

Smaller(a, b) == IF a < b THEN a ELSE b

\* top lists at most TopListed records of the category, as many as there
\* are up to that, in non-increasing magnitude, none of them smaller than a
\* record of the category that is left out
TopRule(top, recs, InCategory(_)) ==
    /\ Len(top) = Smaller(TopListed, Cardinality(IndicesWhere(recs, InCategory)))
    /\ NonIncreasing(ChangeMagnitudes(top))
    /\ \A i \in 1..Len(top) :
          /\ InCategory(top[i])
          /\ CountIn(top, top[i]) <= CountIn(recs, top[i])
    /\ \A j \in IndicesWhere(recs, InCategory) :
          CountIn(top, recs[j]) < CountIn(recs, recs[j]) =>
              \A i \in 1..Len(top) :
                  RatLeq(RatAbs(recs[j].percent_change), RatAbs(top[i].percent_change))

TextReportRule(text, recs) ==
    /\ text.total = Len(recs)
    /\ text.gainers = Cardinality(IndicesWhere(recs, IsGainer))
    /\ text.losers = Cardinality(IndicesWhere(recs, IsLoser))
    /\ text.unchanged = Cardinality(IndicesWhere(recs, IsUnchanged))
    /\ IndicesWhere(recs, IsGainer) \cap IndicesWhere(recs, IsLoser) = {}
    /\ IndicesWhere(recs, IsGainer) \cap IndicesWhere(recs, IsUnchanged) = {}
    /\ IndicesWhere(recs, IsLoser) \cap IndicesWhere(recs, IsUnchanged) = {}
    /\ text.gainers + text.losers + text.unchanged = text.total
    /\ text.detailed = recs
    /\ TopRule(text.top_gainers, recs, IsGainer)
    /\ TopRule(text.top_losers, recs, IsLoser)

MoveOfPrices(prices) ==
    IF Len(prices) < 2 \/ prices[2] = 0 THEN RatZero
    ELSE Rat((prices[1] - prices[2]) * 100, prices[2])

\* |percent change| of every ticker that has statistics
Magnitudes(ticker_set) ==
    [t \in {u \in ticker_set : TickerHasPrices(u)} |->
        RatAbs(MoveOfPrices(PresentPrices(Path(RootDir, t))))]

AllTickerSet ==
    {basename_ticker(get_all_stock_files[j]) : j \in 1..Len(get_all_stock_files)}

ShownIn(list) == {list[i].ticker : i \in 1..Len(list)}

\* no ticker left out has a strictly larger magnitude than one shown
NoLargerLeftOut(shown, mags) ==
    /\ shown \subseteq DOMAIN mags
    /\ \A t \in DOMAIN mags \ shown : \A u \in shown : RatLeq(mags[t], mags[u])

TopMoversShown(html, mags) ==
    /\ NoLargerLeftOut(ShownIn(html.gallery), mags)
    /\ NoLargerLeftOut(ShownIn(html.table), mags)

\* C9: the tickers of the gallery and of the table are the top movers among
\* all tracked tickers that have statistics: no ticker left out of the
\* table (of the gallery) has a strictly larger |percent change| than a
\* ticker shown in it.
C9_TopMoversAmongAllTracked ==
    report_artifact # None =>
        TopMoversShown(Get(report_artifact), Magnitudes(AllTickerSet))

\* C10 as stated: at most 12 chart data blocks and at most 20 table rows;
\* the chart data has an entry only for tickers of the gallery.
C10_ChartDataOnlyForCharted ==
    report_artifact # None =>
        /\ Cardinality(DOMAIN Get(report_artifact).chartData) <= ChartsShown
        /\ Len(Get(report_artifact).table) <= TableRows
        /\ DOMAIN Get(report_artifact).chartData \subseteq ShownIn(Get(report_artifact).gallery)

ChartDataRule(html, with_stats) ==
    /\ Len(html.gallery) = Smaller(ChartsShown, Cardinality(with_stats))
    /\ Len(html.table) = Smaller(TableRows, Cardinality(with_stats))
    /\ DOMAIN html.chartData = with_stats
    /\ Cardinality(DOMAIN html.chartData) <= SampledFiles
    /\ ShownIn(html.gallery) \subseteq DOMAIN html.chartData
    /\ ShownIn(html.table) \subseteq DOMAIN html.chartData

\* C10 as amended: the gallery has at most 12 charts and the table at most
\* 20 rows; the chart data has an entry for every ticker with statistics
\* among the first 20 tracked ticker files, at most 20 entries, and so for
\* every ticker of the gallery.
C10_ChartDataForEverySampled ==
    report_artifact # None =>
        ChartDataRule(Get(report_artifact), {t \in SampledTickerSet : TickerHasPrices(t)})

\* more tickers have chart data than the gallery shows
C10_Witness ==
    /\ report_artifact # None
    /\ Len(Get(report_artifact).gallery) = ChartsShown
    /\ Len(Get(report_artifact).table) = TableRows
    /\ Cardinality(DOMAIN Get(report_artifact).chartData) = SampledFiles
    /\ Len(tracked) > SampledFiles

(***************************************************************************)
(* Claims about two runs on the same store.                                *)
(***************************************************************************)
DiffRanTwice == diff_first_run # None /\ pc_diff = "exited"
ReportRanTwice == report_first_run # None /\ pc_report = "exited"

\* C11 as stated: two runs of the same pipeline over the same store write
\* identical artifacts, whenever they run.
C11_SameStoreSameArtifact ==
    /\ DiffRanTwice => diff_artifact = Get(diff_first_run)
    /\ ReportRanTwice => report_artifact = Get(report_first_run)

\* the document without its `Generated:` line
WithoutClock(artifact) ==
    IF artifact = None THEN None ELSE Some([Get(artifact) EXCEPT !.generated = 0])

\* C11 as amended: two runs of the diff pipeline over the same store write
\* identical artifacts; two runs of the report pipeline write documents
\* that are identical except for the generation time.
C11_SameStoreSameArtifactButClock ==
    /\ DiffRanTwice => diff_artifact = Get(diff_first_run)
    /\ ReportRanTwice =>
          WithoutClock(report_artifact) = WithoutClock(Get(report_first_run))

\* both scripts ran twice and wrote; the two documents differ in the
\* generation time only
C11_Witness ==
    /\ DiffRanTwice
    /\ ReportRanTwice
    /\ diff_artifact # None
    /\ Get(diff_artifact).total >= 2
    /\ report_artifact # None
    /\ Get(report_first_run) # None
    /\ Get(report_artifact).generated # Get(Get(report_first_run)).generated

(***************************************************************************)
(* Claims relating the two pipelines.                                      *)
(***************************************************************************)
SameCounts(html, text) ==
    /\ html.gainers = text.gainers
    /\ html.losers = text.losers
    /\ html.unchanged = text.unchanged

\* the tracked ticker files with a price at both of the two newest revisions
ComparableFiles ==
    {j \in 1..Len(get_all_stock_files) : Comparable(get_all_stock_files[j])}

\* C12: over the same store the gainers, losers and unchanged counts of the
\* HTML summary equal those of the text report; a ticker with a price at
\* only one of the two newest revisions is counted in no category.
C12_PipelinesAgreeOnCounts ==
    (diff_artifact # None /\ report_artifact # None) =>
        /\ SameCounts(Get(report_artifact), Get(diff_artifact))
        /\ Get(report_artifact).gainers + Get(report_artifact).losers
             + Get(report_artifact).unchanged = Cardinality(ComparableFiles)

PricesOf(history) == [i \in 1..Len(history) |-> history[i].price]

\* the history the report holds for a tracked file is the one of its path
HistoryFromPath(filepath, stocks, prices) ==
    IF prices = <<>>
    THEN \A i \in 1..Len(stocks) : stocks[i].ticker # basename_ticker(filepath)
    ELSE \E i \in 1..Len(stocks) :
            /\ stocks[i].ticker = basename_ticker(filepath)
            /\ PricesOf(stocks[i].history) = prices

SampledPaths == Take(get_all_stock_files, SampledFiles)

\* C13: for every tracked ticker file, in a subdirectory or not, the report
\* pipeline builds the ticker's history from the snapshots of exactly that
\* path, the path the diff pipeline reads for the same file.
C13_HistoryFromTrackedPath ==
    /\ report_artifact # None =>
          \A j \in 1..Len(SampledPaths) :
              HistoryFromPath(SampledPaths[j], all_stocks_data,
                              PresentPrices(SampledPaths[j]))
    /\ diff_artifact # None =>
          \A j \in ComparableFiles :
              \E i \in 1..Len(changes) :
                  RecordMatchesFile(changes[i], get_all_stock_files[j])

=============================================================================
